---------------------------- MODULE Spec2Model ----------------------------
(***************************************************************************)
(* A model of the idtype crate (src/src/lib.rs): the three macros id!,     *)
(* name! and secret!, as instantiated by the crate's own tests (TestId,    *)
(* TestName, TestSecret) and by examples/secret.rs (ApiToken, Settings).   *)
(*                                                                         *)
(* Text is a sequence of bytes (a Rust String / &str), a u64 is a sequence *)
(* of four 16-bit limbs, most significant first, so that the whole range   *)
(* 0 .. 2^64-1 is represented exactly.  A structured value is a tagged     *)
(* record in the shape of serde's data model as serde_json presents it.    *)
(***************************************************************************)
EXTENDS Integers, Sequences, FiniteSets, TLC

(***************************************************************************)
(* Bounds of the model.                                                    *)
(***************************************************************************)
MaxLen == 2

NumReaders == 2

(***************************************************************************)
(* Text.                                                                   *)
(***************************************************************************)
\* The bytes the bounded strings are drawn from: '2' and 'R'.
Alphabet == {50, 82}

RECURSIVE StrUpTo(_)
StrUpTo(n) ==
    IF n = 0 THEN {<<>>}
    ELSE LET shorter == StrUpTo(n - 1)
         IN  shorter \cup {Append(s, c) : s \in {t \in shorter : Len(t) = n - 1}, c \in Alphabet}

\* Every text the model feeds to a constructor or puts on the wire.
Strings == StrUpTo(MaxLen)

\* s is a contiguous part of t (str::contains).
Contains(t, s) ==
    \E i \in 1..(Len(t) - Len(s) + 1) : SubSeq(t, i, i + Len(s) - 1) = s

\* <str as Ord>::cmp: lexicographic on the bytes.
RECURSIVE Str_cmp(_, _)
Str_cmp(a, b) ==
    IF a = <<>> /\ b = <<>> THEN "Equal"
    ELSE IF a = <<>> THEN "Less"
    ELSE IF b = <<>> THEN "Greater"
    ELSE IF Head(a) < Head(b) THEN "Less"
    ELSE IF Head(a) > Head(b) THEN "Greater"
    ELSE Str_cmp(Tail(a), Tail(b))

\* <str as Hash>::hash: the bytes, then the 0xff terminator.
Str_hash(s) == <<[write |-> "bytes", data |-> s], [write |-> "u8", data |-> 255]>>

\* <str as Debug>::fmt: quoted, with '"' and '\' escaped by a backslash.
RECURSIVE Str_escape(_)
Str_escape(s) ==
    IF s = <<>> THEN <<>>
    ELSE (IF Head(s) \in {34, 92} THEN <<92, Head(s)>> ELSE <<Head(s)>>)
         \o Str_escape(Tail(s))

Str_fmt_debug(s) == <<34>> \o Str_escape(s) \o <<34>>

(***************************************************************************)
(* u64: four limbs of 16 bits, most significant first.                     *)
(***************************************************************************)
U64Bits == 64

LimbBase == 2^16

NumLimbs == U64Bits \div 16

\* The u64 of a natural number below 2^31.
U64(n) == <<0, 0, n \div LimbBase, n % LimbBase>>

U64_MAX == [i \in 1..NumLimbs |-> LimbBase - 1]

\* The u64 values the model feeds to a constructor or puts on the wire:
\* 0, 9, 10, 42, 2^16 - 1, 2^16, 2^32 and 2^64 - 1.
U64Vals ==
    {U64(0), U64(9), U64(10), U64(42), U64(65535), U64(65536), <<0, 1, 0, 0>>, U64_MAX}

\* <u64 as Ord>::cmp.
RECURSIVE Limbs_cmp(_, _)
Limbs_cmp(x, y) ==
    IF x = <<>> THEN "Equal"
    ELSE IF Head(x) < Head(y) THEN "Less"
    ELSE IF Head(x) > Head(y) THEN "Greater"
    ELSE Limbs_cmp(Tail(x), Tail(y))

U64_cmp(x, y) == Limbs_cmp(x, y)

\* <u64 as Hash>::hash: one write_u64.
U64_hash(x) == <<[write |-> "u64", data |-> x]>>

\* x divided by ten: the quotient's limbs and the remainder, by long division.
RECURSIVE Limbs_div10(_, _)
Limbs_div10(x, rem) ==
    IF x = <<>> THEN [q |-> <<>>, r |-> rem]
    ELSE LET cur  == rem * LimbBase + Head(x)
             rest == Limbs_div10(Tail(x), cur % 10)
         IN  [q |-> <<cur \div 10>> \o rest.q, r |-> rest.r]

IsZero(x) == \A i \in 1..Len(x) : x[i] = 0

\* <u64 as Display>::fmt: the decimal digits, most significant first.
RECURSIVE U64_digits(_)
U64_digits(x) ==
    IF IsZero(x) THEN <<>>
    ELSE LET d == Limbs_div10(x, 0)
         IN  Append(U64_digits(d.q), 48 + d.r)

U64_fmt(x) == IF IsZero(x) THEN <<48>> ELSE U64_digits(x)

\* x * 10 + carry on limbs, with the carry out of the top limb.
RECURSIVE Limbs_muladd(_, _)
Limbs_muladd(x, carry) ==
    IF x = <<>> THEN [v |-> <<>>, c |-> carry]
    ELSE LET t    == x[Len(x)] * 10 + carry
             rest == Limbs_muladd(SubSeq(x, 1, Len(x) - 1), t \div LimbBase)
         IN  [v |-> Append(rest.v, t % LimbBase), c |-> rest.c]

\* The number a string of decimal digits denotes, by Horner's rule.
RECURSIVE DecValue(_, _)
DecValue(acc, digits) ==
    IF digits = <<>> THEN acc
    ELSE DecValue(Limbs_muladd(acc, Head(digits) - 48).v, Tail(digits))

(***************************************************************************)
(* The generated types.  A value is a record of its kind and its one field *)
(* (self.0, here f0).                                                      *)
(***************************************************************************)
NoObj == [kind |-> "none"]

\* stringify!($id) for the three test instantiations.
TypeName(kind) ==
    CASE kind = "id"     -> <<84, 101, 115, 116, 73, 100>>
      [] kind = "name"   -> <<84, 101, 115, 116, 78, 97, 109, 101>>
      [] kind = "secret" -> <<84, 101, 115, 116, 83, 101, 99, 114, 101, 116>>

\* The traits each macro derives.
Derives(kind) ==
    CASE kind = "id" ->
           {"Copy", "Clone", "Eq", "PartialEq", "Ord", "PartialOrd", "Hash", "Debug",
            "Deserialize", "Serialize"}
      [] kind = "name" ->
           {"Clone", "Eq", "PartialEq", "Ord", "PartialOrd", "Hash", "Debug",
            "Deserialize", "Serialize"}
      [] kind = "secret" -> {"Clone", "Debug", "Deserialize"}

(***************************************************************************)
(* Structured values (the serde data model as serde_json's Value presents  *)
(* it) and the results of deserialization.                                 *)
(***************************************************************************)
VNull == [t |-> "Null"]

VBool(b) == [t |-> "Bool", b |-> b]

\* A non-negative integer number.
VPosInt(x) == [t |-> "PosInt", n |-> x]

\* A negative integer number (its magnitude plays no part).
VNegInt == [t |-> "NegInt"]

VFloat == [t |-> "Float"]

VString(s) == [t |-> "String", s |-> s]

\* An object: a set of [key, val] entries with distinct keys.
VObject(entries) == [t |-> "Object", entries |-> entries]

Scalars ==
    {VNull, VBool(TRUE), VNegInt, VFloat}
        \cup {VPosInt(x) : x \in U64Vals}
        \cup {VString(s) : s \in Strings}

\* Every document examples/secret.rs is run on: the scalars, and the objects
\* with at most the keys "token" and "other".
Values ==
    Scalars
        \cup {VObject({})}
        \cup {VObject({[key |-> "token", val |-> v]}) : v \in Scalars}
        \cup {VObject({[key |-> "token", val |-> v], [key |-> "other", val |-> VNull]}) :
                v \in Scalars}

Ok(x) == [ok |-> TRUE, val |-> x]

\* serde::de::Error::invalid_type(unexpected, expected): it holds no value.
InvalidType(v, expected) ==
    [ok |-> FALSE, err |-> "invalid_type", unexpected |-> v.t, expected |-> expected]

InvalidValue(v, expected) ==
    [ok |-> FALSE, err |-> "invalid_value", unexpected |-> v.t, expected |-> expected]

MissingField(name) == [ok |-> FALSE, err |-> "missing_field", field |-> name]

\* <u64 as Deserialize>::deserialize.
U64_deserialize(v) ==
    CASE v.t = "PosInt" -> Ok(v.n)
      [] v.t = "NegInt" -> InvalidValue(v, "u64")
      [] OTHER          -> InvalidType(v, "u64")

\* <String as Deserialize>::deserialize.
String_deserialize(v) ==
    IF v.t = "String" THEN Ok(v.s) ELSE InvalidType(v, "a string")

(***************************************************************************)
(* id!                                                                     *)
(***************************************************************************)
Id_new(id) == [kind |-> "id", f0 |-> id]

Id_get(self) == self.f0

\* Id_fmt, were it to print the type's name too.
Id_fmt_named(self) == TypeName("id") \o <<40>> \o U64_fmt(self.f0) \o <<41>>

Id_fmt(self) == U64_fmt(self.f0)

Id_from(id) == [kind |-> "id", f0 |-> id]

\* derive(Copy, Clone)
Id_clone(self) == [kind |-> "id", f0 |-> self.f0]

\* derive(Eq, PartialEq)
Id_eq(self, other) == self.f0 = other.f0

\* derive(Ord, PartialOrd)
Id_cmp(self, other) == U64_cmp(self.f0, other.f0)

\* derive(Hash)
Id_hash(self) == U64_hash(self.f0)

\* derive(Debug): TestId(<digits>)
Id_fmt_debug(self) == TypeName("id") \o <<40>> \o U64_fmt(self.f0) \o <<41>>

\* derive(Serialize): a newtype struct serializes as its field.
Id_serialize(self) == VPosInt(self.f0)

\* Id_deserialize, were the field read as a u32.
Id_deserialize_u32(v) ==
    LET r == U64_deserialize(v)
    IN  IF ~r.ok THEN r
        ELSE IF r.val[1] # 0 \/ r.val[2] # 0 THEN InvalidValue(v, "u32")
        ELSE Ok([kind |-> "id", f0 |-> r.val])

\* Id_deserialize, were it to accept a string of digits as well.
Id_deserialize_lenient(v) ==
    IF v.t = "String" /\ v.s # <<>> /\ \A i \in 1..Len(v.s) : v.s[i] \in 48..57
    THEN Ok([kind |-> "id", f0 |-> DecValue(U64(0), v.s)])
    ELSE LET r == U64_deserialize(v)
         IN  IF r.ok THEN Ok([kind |-> "id", f0 |-> r.val]) ELSE r

\* derive(Deserialize): a newtype struct deserializes from its field's form.
Id_deserialize(v) ==
    LET r == U64_deserialize(v)
    IN  IF r.ok THEN Ok([kind |-> "id", f0 |-> r.val]) ELSE r

(***************************************************************************)
(* name!                                                                   *)
(***************************************************************************)
Name_new(name) == [kind |-> "name", f0 |-> name]

Name_get(self) == self.f0

Name_fmt(self) == self.f0

Name_from_str(string) == [kind |-> "name", f0 |-> string]

Name_from_string(string) == [kind |-> "name", f0 |-> string]

\* Name_clone, were the clone a fresh, empty name.
Name_clone_empty(self) == [kind |-> "name", f0 |-> <<>>]

\* derive(Clone)
Name_clone(self) == [kind |-> "name", f0 |-> self.f0]

\* derive(Eq, PartialEq)
Name_eq(self, other) == self.f0 = other.f0

\* Name_cmp, were shorter names to come first.
Name_cmp_shortlex(self, other) ==
    IF Len(self.f0) < Len(other.f0) THEN "Less"
    ELSE IF Len(self.f0) > Len(other.f0) THEN "Greater"
    ELSE Str_cmp(self.f0, other.f0)

\* derive(Ord, PartialOrd)
Name_cmp(self, other) == Str_cmp(self.f0, other.f0)

\* derive(Hash)
Name_hash(self) == Str_hash(self.f0)

\* derive(Debug): TestName("<escaped text>")
Name_fmt_debug(self) == TypeName("name") \o <<40>> \o Str_fmt_debug(self.f0) \o <<41>>

\* Name_serialize, were the struct serialized as an object of its field.
Name_serialize_wrapped(self) ==
    VObject({[key |-> "0", val |-> VString(self.f0)]})

\* derive(Serialize)
Name_serialize(self) == VString(self.f0)

\* derive(Deserialize)
Name_deserialize(v) ==
    LET r == String_deserialize(v)
    IN  IF r.ok THEN Ok([kind |-> "name", f0 |-> r.val]) ELSE r

(***************************************************************************)
(* secret!  The field is a secrecy::SecretString: a String that only       *)
(* expose_secret() reads and whose Debug prints its type, not its content. *)
(***************************************************************************)
\* "[REDACTED]"
Redacted == <<91, 82, 69, 68, 65, 67, 84, 69, 68, 93>>

\* secrecy::SecretString::new
SecretString_new(s) == [inner_secret |-> s]

\* secrecy::ExposeSecret::expose_secret
SecretString_expose_secret(x) == x.inner_secret

\* <SecretString as Debug>::fmt: "Secret([REDACTED alloc::string::String])"
SecretString_fmt_debug(x) ==
    <<83, 101, 99, 114, 101, 116, 40, 91, 82, 69, 68, 65, 67, 84, 69, 68, 32,
      97, 108, 108, 111, 99, 58, 58, 115, 116, 114, 105, 110, 103, 58, 58,
      83, 116, 114, 105, 110, 103, 93, 41>>

\* <SecretString as Deserialize>::deserialize: a String, wrapped at once.
SecretString_deserialize(v) ==
    LET r == String_deserialize(v)
    IN  IF r.ok THEN Ok(SecretString_new(r.val)) ELSE r

\* Secret_new, were it to keep the first byte only.
Secret_new_lossy(secret) ==
    [kind |-> "secret",
     f0 |-> SecretString_new(IF secret = <<>> THEN secret ELSE <<Head(secret)>>)]

Secret_new(secret) == [kind |-> "secret", f0 |-> SecretString_new(secret)]

Secret_expose(self) == SecretString_expose_secret(self.f0)

\* Secret_fmt, were it to mask all but the first byte.
Secret_fmt_partial(self) ==
    LET s == SecretString_expose_secret(self.f0)
    IN  (IF s = <<>> THEN s ELSE <<Head(s)>>) \o Redacted

\* Secret_fmt, were it to write the content.
Secret_fmt_leaking(self) == SecretString_expose_secret(self.f0)

Secret_fmt(self) == Redacted

Secret_from_str(secret) == [kind |-> "secret", f0 |-> SecretString_new(secret)]

Secret_from_string(secret) == [kind |-> "secret", f0 |-> SecretString_new(secret)]

\* derive(Clone)
Secret_clone(self) == [kind |-> "secret", f0 |-> self.f0]

\* Secret_fmt_debug, were the field a plain String.
Secret_fmt_debug_plain(self) ==
    TypeName("secret") \o <<40>> \o Str_fmt_debug(SecretString_expose_secret(self.f0)) \o <<41>>

\* derive(Debug): TestSecret(<the field's Debug>)
Secret_fmt_debug(self) ==
    TypeName("secret") \o <<40>> \o SecretString_fmt_debug(self.f0) \o <<41>>

\* derive(Deserialize)
Secret_deserialize(v) ==
    LET r == SecretString_deserialize(v)
    IN  IF r.ok THEN Ok([kind |-> "secret", f0 |-> r.val]) ELSE r

(***************************************************************************)
(* examples/secret.rs: Settings { token: ApiToken } with derive(Deserialize)*)
(***************************************************************************)
\* An object's value under "token"; other keys are ignored.
Settings_deserialize(v) ==
    IF v.t # "Object" THEN InvalidType(v, "struct Settings")
    ELSE LET tokens == {e \in v.entries : e.key = "token"}
         IN  IF tokens = {} THEN MissingField("token")
             ELSE LET r == Secret_deserialize((CHOOSE e \in tokens : TRUE).val)
                  IN  IF r.ok THEN Ok([token |-> r.val]) ELSE r

(***************************************************************************)
(* State.  One program holds a value of a generated type (obj), built by   *)
(* a constructor, a conversion or a deserialization, and calls the         *)
(* generated operations on it.  origin remembers what obj was built from,  *)
(* out is the last call: its name, its argument and what it returned.      *)
(* pair/pout/cloned: two secrets driven through the same calls.            *)
(* shared/sorigin/rd/clog: one value read by concurrent readers.           *)
(***************************************************************************)
VARIABLES obj, origin, out, pair, pout, cloned, shared, sorigin, rd, clog

vars == <<obj, origin, out, pair, pout, cloned, shared, sorigin, rd, clog>>

seqVars == <<obj, origin, out>>

pairVars == <<pair, pout, cloned>>

concVars == <<shared, sorigin, rd, clog>>

NoOrigin == [via |-> "none"]

NoOut == [op |-> "none"]

Readers == 1..NumReaders

Init ==
    /\ obj = NoObj
    /\ origin = NoOrigin
    /\ out = NoOut
    /\ pair = <<>>
    /\ pout = NoOut
    /\ cloned = FALSE
    /\ shared = NoObj
    /\ sorigin = NoOrigin
    /\ rd = [r \in Readers |-> [pc |-> "idle", own |-> NoObj]]
    /\ clog = NoOut

\* A constructor or conversion returned value, built from input.
Built(op, input, value) ==
    /\ obj' = value
    /\ origin' = [via |-> op, input |-> input]
    /\ out' = [op |-> op, arg |-> input, res |-> value]
    /\ UNCHANGED <<pairVars, concVars>>

\* A method taking &self returned res.
Returned(op, arg, res) ==
    /\ out' = [op |-> op, arg |-> arg, res |-> res]
    /\ UNCHANGED <<obj, origin, pairVars, concVars>>

\* The structured values handed to a deserializer: whatever arrives from
\* outside, and what the last call returned when it was a serialization.
Payloads ==
    Scalars \cup {VObject({})}
        \cup (IF out.op \in {"Id_serialize", "Name_serialize"} THEN {out.res} ELSE {})

\* The primitive inside a number or a string.
Primitive(v) == IF v.t = "PosInt" THEN v.n ELSE v.s

\* The value that v is the serialized form of, when v is what the last call,
\* a serialization, returned.
SourceOf(v) ==
    IF out.op \in {"Id_serialize", "Name_serialize"} /\ out.res = v THEN out.arg ELSE NoObj

\* from_value(v) returned r: Ok binds the value, Err binds nothing.
Deserialized(op, v, r) ==
    /\ out' = [op |-> op, arg |-> v, src |-> SourceOf(v), res |-> r]
    /\ IF r.ok
       THEN /\ obj' = r.val
            /\ origin' = [via |-> op, input |-> Primitive(v)]
       ELSE UNCHANGED <<obj, origin>>
    /\ UNCHANGED <<pairVars, concVars>>

Call_Id_new == \E v \in U64Vals : Built("Id_new", v, Id_new(v))

Call_Id_from == \E v \in U64Vals : Built("Id_from", v, Id_from(v))

Call_Id_get == obj.kind = "id" /\ Returned("Id_get", obj, Id_get(obj))

Call_Id_fmt == obj.kind = "id" /\ Returned("Id_fmt", obj, Id_fmt(obj))

Call_Id_fmt_debug == obj.kind = "id" /\ "Debug" \in Derives("id") /\ Returned("Id_fmt_debug", obj, Id_fmt_debug(obj))

Call_Id_clone == obj.kind = "id" /\ "Clone" \in Derives("id") /\ Returned("Id_clone", obj, Id_clone(obj))

Call_Id_eq ==
    /\ obj.kind = "id" /\ "PartialEq" \in Derives("id")
    /\ \E y \in U64Vals : Returned("Id_eq", y, Id_eq(obj, Id_new(y)))

Call_Id_cmp ==
    /\ obj.kind = "id" /\ "Ord" \in Derives("id")
    /\ \E y \in U64Vals : Returned("Id_cmp", y, Id_cmp(obj, Id_new(y)))

Call_Id_hash ==
    /\ obj.kind = "id" /\ "Hash" \in Derives("id")
    /\ \E y \in U64Vals :
          Returned("Id_hash", y, [self |-> Id_hash(obj), other |-> Id_hash(Id_new(y))])

Call_Id_serialize == obj.kind = "id" /\ "Serialize" \in Derives("id") /\ Returned("Id_serialize", obj, Id_serialize(obj))

Call_Id_deserialize ==
    "Deserialize" \in Derives("id") /\
    \E v \in Payloads : Deserialized("Id_deserialize", v, Id_deserialize(v))

Call_Name_new == \E s \in Strings : Built("Name_new", s, Name_new(s))

Call_Name_from_str == \E s \in Strings : Built("Name_from_str", s, Name_from_str(s))

Call_Name_from_string == \E s \in Strings : Built("Name_from_string", s, Name_from_string(s))

Call_Name_get == obj.kind = "name" /\ Returned("Name_get", obj, Name_get(obj))

Call_Name_fmt == obj.kind = "name" /\ Returned("Name_fmt", obj, Name_fmt(obj))

Call_Name_fmt_debug ==
    obj.kind = "name" /\ "Debug" \in Derives("name") /\ Returned("Name_fmt_debug", obj, Name_fmt_debug(obj))

Call_Name_clone == obj.kind = "name" /\ "Clone" \in Derives("name") /\ Returned("Name_clone", obj, Name_clone(obj))

Call_Name_eq ==
    /\ obj.kind = "name" /\ "PartialEq" \in Derives("name")
    /\ \E y \in Strings : Returned("Name_eq", y, Name_eq(obj, Name_new(y)))

Call_Name_cmp ==
    /\ obj.kind = "name" /\ "Ord" \in Derives("name")
    /\ \E y \in Strings : Returned("Name_cmp", y, Name_cmp(obj, Name_new(y)))

Call_Name_hash ==
    /\ obj.kind = "name" /\ "Hash" \in Derives("name")
    /\ \E y \in Strings :
          Returned("Name_hash", y, [self |-> Name_hash(obj), other |-> Name_hash(Name_new(y))])

Call_Name_serialize ==
    obj.kind = "name" /\ "Serialize" \in Derives("name") /\ Returned("Name_serialize", obj, Name_serialize(obj))

Call_Name_deserialize ==
    "Deserialize" \in Derives("name") /\
    \E v \in Payloads : Deserialized("Name_deserialize", v, Name_deserialize(v))

Call_Secret_new == \E s \in Strings : Built("Secret_new", s, Secret_new(s))

Call_Secret_from_str == \E s \in Strings : Built("Secret_from_str", s, Secret_from_str(s))

Call_Secret_from_string ==
    \E s \in Strings : Built("Secret_from_string", s, Secret_from_string(s))

Call_Secret_expose == obj.kind = "secret" /\ Returned("Secret_expose", obj, Secret_expose(obj))

Call_Secret_fmt == obj.kind = "secret" /\ Returned("Secret_fmt", obj, Secret_fmt(obj))

Call_Secret_fmt_debug ==
    obj.kind = "secret" /\ "Debug" \in Derives("secret") /\ Returned("Secret_fmt_debug", obj, Secret_fmt_debug(obj))

Call_Secret_clone == obj.kind = "secret" /\ "Clone" \in Derives("secret") /\ Returned("Secret_clone", obj, Secret_clone(obj))

Call_Secret_deserialize ==
    "Deserialize" \in Derives("secret") /\
    \E v \in Payloads : Deserialized("Secret_deserialize", v, Secret_deserialize(v))

\* examples/secret.rs main, run on the document v: Err(e) from the `?`, or
\* Ok with the text that expose() returned.
Call_main ==
    \E v \in Values :
       LET settings == Settings_deserialize(v)
       IN  Returned("main", v,
                    IF settings.ok THEN Ok(Secret_expose(settings.val.token)) ELSE settings)

\* The value goes out of scope.
Drop ==
    /\ obj # NoObj
    /\ obj' = NoObj
    /\ origin' = NoOrigin
    /\ out' = NoOut
    /\ UNCHANGED <<pairVars, concVars>>

Next ==
    \/ Call_Id_new \/ Call_Id_from \/ Call_Id_get \/ Call_Id_fmt \/ Call_Id_fmt_debug
    \/ Call_Id_clone \/ Call_Id_eq \/ Call_Id_cmp \/ Call_Id_hash
    \/ Call_Id_serialize \/ Call_Id_deserialize
    \/ Call_Name_new \/ Call_Name_from_str \/ Call_Name_from_string \/ Call_Name_get
    \/ Call_Name_fmt \/ Call_Name_fmt_debug \/ Call_Name_clone \/ Call_Name_eq
    \/ Call_Name_cmp \/ Call_Name_hash \/ Call_Name_serialize \/ Call_Name_deserialize
    \/ Call_Secret_new \/ Call_Secret_from_str \/ Call_Secret_from_string
    \/ Call_Secret_expose \/ Call_Secret_fmt \/ Call_Secret_fmt_debug
    \/ Call_Secret_clone \/ Call_Secret_deserialize
    \/ Call_main \/ Drop

Spec == Init /\ [][Next]_vars

(***************************************************************************)
(* Two secrets, built the same way from two texts, taken through the same  *)
(* calls: pout holds what the last call returned for each.                 *)
(***************************************************************************)
PairBuilt(a, b) ==
    /\ pair' = <<a, b>>
    /\ pout' = NoOut
    /\ cloned' = FALSE
    /\ UNCHANGED <<seqVars, concVars>>

PairReturned(op, a, b) ==
    /\ pout' = [op |-> op, r1 |-> a, r2 |-> b]
    /\ UNCHANGED <<pair, cloned, seqVars, concVars>>

Pair_new == \E s \in Strings, t \in Strings : PairBuilt(Secret_new(s), Secret_new(t))

Pair_from_str ==
    \E s \in Strings, t \in Strings : PairBuilt(Secret_from_str(s), Secret_from_str(t))

Pair_from_string ==
    \E s \in Strings, t \in Strings : PairBuilt(Secret_from_string(s), Secret_from_string(t))

Pair_deserialize ==
    /\ "Deserialize" \in Derives("secret")
    /\ \E s \in Strings, t \in Strings :
          PairBuilt(Secret_deserialize(VString(s)).val, Secret_deserialize(VString(t)).val)

Pair_expose ==
    /\ pair # <<>>
    /\ PairReturned("Secret_expose", Secret_expose(pair[1]), Secret_expose(pair[2]))

Pair_fmt ==
    /\ pair # <<>>
    /\ PairReturned("Secret_fmt", Secret_fmt(pair[1]), Secret_fmt(pair[2]))

Pair_fmt_debug ==
    /\ pair # <<>>
    /\ "Debug" \in Derives("secret")
    /\ PairReturned("Secret_fmt_debug", Secret_fmt_debug(pair[1]), Secret_fmt_debug(pair[2]))

\* Both go on as their clones.
Pair_clone ==
    /\ pair # <<>>
    /\ "Clone" \in Derives("secret")
    /\ pair' = <<Secret_clone(pair[1]), Secret_clone(pair[2])>>
    /\ cloned' = TRUE
    /\ pout' = [op |-> "Secret_clone", r1 |-> pair'[1], r2 |-> pair'[2]]
    /\ UNCHANGED <<seqVars, concVars>>

PairNext ==
    \/ Pair_new \/ Pair_from_str \/ Pair_from_string \/ Pair_deserialize
    \/ Pair_expose \/ Pair_fmt \/ Pair_fmt_debug \/ Pair_clone

SpecPair == Init /\ [][PairNext]_vars

(***************************************************************************)
(* One value, built once, and readers that each hold a shared borrow of it *)
(* while they call its &self methods; a reader may keep a clone of its own.*)
(* The types are Send + Sync and no method takes &mut self.                *)
(***************************************************************************)
Construct(kind, v) ==
    CASE kind = "id"     -> Id_new(v)
      [] kind = "name"   -> Name_new(v)
      [] kind = "secret" -> Secret_new(v)

Accessor(o) ==
    CASE o.kind = "id"     -> Id_get(o)
      [] o.kind = "name"   -> Name_get(o)
      [] o.kind = "secret" -> Secret_expose(o)

Fmt(o) ==
    CASE o.kind = "id"     -> Id_fmt(o)
      [] o.kind = "name"   -> Name_fmt(o)
      [] o.kind = "secret" -> Secret_fmt(o)

FmtDebug(o) ==
    CASE o.kind = "id"     -> Id_fmt_debug(o)
      [] o.kind = "name"   -> Name_fmt_debug(o)
      [] o.kind = "secret" -> Secret_fmt_debug(o)

Clone(o) ==
    CASE o.kind = "id"     -> Id_clone(o)
      [] o.kind = "name"   -> Name_clone(o)
      [] o.kind = "secret" -> Secret_clone(o)

Cmp(a, b) == IF a.kind = "id" THEN Id_cmp(a, b) ELSE Name_cmp(a, b)

Eq(a, b) == IF a.kind = "id" THEN Id_eq(a, b) ELSE Name_eq(a, b)

Hash(o) == IF o.kind = "id" THEN Id_hash(o) ELSE Name_hash(o)

Serialize(o) == IF o.kind = "id" THEN Id_serialize(o) ELSE Name_serialize(o)

Inputs(kind) == IF kind = "id" THEN U64Vals ELSE Strings

Conc_new ==
    /\ shared = NoObj
    /\ \E kind \in {"id", "name", "secret"} :
          \E v \in Inputs(kind) :
             /\ shared' = Construct(kind, v)
             /\ sorigin' = [via |-> "new", input |-> v]
    /\ UNCHANGED <<rd, clog, seqVars, pairVars>>

\* Reader r takes a shared borrow (&shared).
R_borrow(r) ==
    /\ shared # NoObj
    /\ rd[r].pc = "idle"
    /\ rd' = [rd EXCEPT ![r].pc = "borrowed"]
    /\ UNCHANGED <<shared, sorigin, clog, seqVars, pairVars>>

R_release(r) ==
    /\ rd[r].pc = "borrowed"
    /\ rd' = [rd EXCEPT ![r].pc = "idle"]
    /\ UNCHANGED <<shared, sorigin, clog, seqVars, pairVars>>

\* Reader r's call through its borrow returned res; nothing else changes.
Read(r, op, res) ==
    /\ clog' = [op |-> op, reader |-> r, res |-> res]
    /\ UNCHANGED <<shared, sorigin, rd, seqVars, pairVars>>

R_get(r) == rd[r].pc = "borrowed" /\ Read(r, "get", Accessor(shared))

R_fmt(r) == rd[r].pc = "borrowed" /\ Read(r, "fmt", Fmt(shared))

R_fmt_debug(r) ==
    /\ rd[r].pc = "borrowed"
    /\ "Debug" \in Derives(shared.kind)
    /\ Read(r, "fmt_debug", FmtDebug(shared))

R_clone(r) ==
    /\ rd[r].pc = "borrowed"
    /\ "Clone" \in Derives(shared.kind)
    /\ rd' = [rd EXCEPT ![r].own = Clone(shared)]
    /\ clog' = [op |-> "clone", reader |-> r, res |-> Clone(shared)]
    /\ UNCHANGED <<shared, sorigin, seqVars, pairVars>>

\* Reader r compares its own clone with the shared value.
R_eq(r) ==
    /\ rd[r].pc = "borrowed"
    /\ rd[r].own # NoObj
    /\ "PartialEq" \in Derives(shared.kind)
    /\ Read(r, "eq", Eq(rd[r].own, shared))

R_cmp(r) ==
    /\ rd[r].pc = "borrowed"
    /\ rd[r].own # NoObj
    /\ "Ord" \in Derives(shared.kind)
    /\ Read(r, "cmp", Cmp(rd[r].own, shared))

R_hash(r) ==
    /\ rd[r].pc = "borrowed"
    /\ "Hash" \in Derives(shared.kind)
    /\ Read(r, "hash", Hash(shared))

R_serialize(r) ==
    /\ rd[r].pc = "borrowed"
    /\ "Serialize" \in Derives(shared.kind)
    /\ Read(r, "serialize", Serialize(shared))

\* Reader r reads its own clone.
R_get_own(r) ==
    /\ rd[r].own # NoObj
    /\ Read(r, "get_own", Accessor(rd[r].own))

ConcNext ==
    \/ Conc_new
    \/ \E r \in Readers :
          \/ R_borrow(r) \/ R_release(r) \/ R_get(r) \/ R_fmt(r) \/ R_fmt_debug(r)
          \/ R_clone(r) \/ R_eq(r) \/ R_cmp(r) \/ R_hash(r) \/ R_serialize(r)
          \/ R_get_own(r)

SpecConc == Init /\ [][ConcNext]_vars

(***************************************************************************)
(* Reference notions the properties are stated with.                       *)
(***************************************************************************)
\* "[REDACTED]", spelled out.
Marker == <<91, 82, 69, 68, 65, 67, 84, 69, 68, 93>>

\* x < y on u64: at the first limb where they differ, x's is smaller.
NumLess(x, y) ==
    \E i \in 1..Len(x) : x[i] < y[i] /\ \A j \in 1..(i - 1) : x[j] = y[j]

\* a < b on text: a is a proper prefix of b, or at the first byte where they
\* differ a's is smaller.
LexLess(a, b) ==
    \E i \in 1..Len(b) :
       /\ i - 1 <= Len(a)
       /\ \A j \in 1..(i - 1) : a[j] = b[j]
       /\ (i > Len(a) \/ a[i] < b[i])

IsDecimal(text) ==
    /\ Len(text) >= 1
    /\ \A i \in 1..Len(text) : text[i] \in 48..57
    /\ (Len(text) > 1 => text[1] # 48)

SecretBuilders ==
    {"Secret_new", "Secret_from_str", "Secret_from_string", "Secret_deserialize"}

(***************************************************************************)
(* Properties.                                                             *)
(***************************************************************************)
\* C1: whichever way a secret was built (new, From<&str>, From<String>,
\* deserialization) and whatever text it holds, its Display rendering is
\* exactly "[REDACTED]", the same as the rendering of a secret holding any
\* other text.
C1_DisplayIsMarker ==
    out.op = "Secret_fmt" =>
        /\ origin.via \in SecretBuilders
        /\ out.res = Marker
        /\ \A t \in Strings : Secret_fmt(Secret_new(t)) = out.res

\* A deserialized secret holding "R2" was displayed.
C1_Witness ==
    /\ out.op = "Secret_fmt"
    /\ origin.via = "Secret_deserialize"
    /\ origin.input = <<82, 50>>

\* C2: deserializing what serializing an identifier (a name) returned never
\* fails and yields a value equal to the one serialized, for every u64 and
\* every string, the empty one included.
C2_RoundTrip ==
    /\ (out.op = "Id_deserialize" /\ out.src.kind = "id") =>
          /\ out.res.ok
          /\ out.res.val = out.src
          /\ Id_eq(out.res.val, out.src)
          /\ obj = out.src
    /\ (out.op = "Name_deserialize" /\ out.src.kind = "name") =>
          /\ out.res.ok
          /\ out.res.val = out.src
          /\ Name_eq(out.res.val, out.src)
          /\ obj = out.src

\* The serialized form of the identifier 2^64 - 1 was deserialized.
C2_Witness ==
    /\ out.op = "Id_deserialize"
    /\ out.src.kind = "id"
    /\ out.src.f0 = <<65535, 65535, 65535, 65535>>

\* C3: the accessor returns what the constructor was given, unchanged:
\* Id::new(v).get() = v, Name::new(s).get() = s, Secret::new(s).expose() = s;
\* the same for the conversions and for deserialized values.
C3_AccessorFidelity ==
    /\ out.op \in {"Id_new", "Id_from"} => Id_get(out.res) = out.arg
    /\ out.op \in {"Name_new", "Name_from_str", "Name_from_string"} =>
          Name_get(out.res) = out.arg
    /\ out.op \in {"Secret_new", "Secret_from_str", "Secret_from_string"} =>
          Secret_expose(out.res) = out.arg
    /\ out.op = "Id_get" => out.res = origin.input
    /\ out.op = "Name_get" => out.res = origin.input
    /\ out.op = "Secret_expose" => out.res = origin.input

\* expose() was called on Secret::new("R2").
C3_Witness ==
    /\ out.op = "Secret_expose"
    /\ origin.via = "Secret_new"
    /\ origin.input = <<82, 50>>
    /\ out.res = <<82, 50>>

\* C4: equality, ordering and hashing of identifiers and of names are those
\* of the wrapped values: a == b iff x = y, a < b iff x < y (numbers by
\* value, text lexicographically), equal values hash alike, and the order is
\* a total order.
C4_Delegation ==
    /\ out.op = "Id_eq" => (out.res <=> origin.input = out.arg)
    /\ out.op = "Id_cmp" =>
          /\ (out.res = "Less" <=> NumLess(origin.input, out.arg))
          /\ (out.res = "Greater" <=> NumLess(out.arg, origin.input))
          /\ (out.res = "Equal" <=> Id_eq(obj, Id_new(out.arg)))
          /\ (out.res = "Less" <=> Id_cmp(Id_new(out.arg), obj) = "Greater")
          /\ \A z \in U64Vals :
                (out.res = "Less" /\ Id_cmp(Id_new(out.arg), Id_new(z)) = "Less")
                    => Id_cmp(obj, Id_new(z)) = "Less"
    /\ out.op = "Id_hash" =>
          (Id_eq(obj, Id_new(out.arg)) => out.res.self = out.res.other)
    /\ out.op = "Name_eq" => (out.res <=> origin.input = out.arg)
    /\ out.op = "Name_cmp" =>
          /\ (out.res = "Less" <=> LexLess(origin.input, out.arg))
          /\ (out.res = "Greater" <=> LexLess(out.arg, origin.input))
          /\ (out.res = "Equal" <=> Name_eq(obj, Name_new(out.arg)))
          /\ (out.res = "Less" <=> Name_cmp(Name_new(out.arg), obj) = "Greater")
          /\ \A z \in Strings :
                (out.res = "Less" /\ Name_cmp(Name_new(out.arg), Name_new(z)) = "Less")
                    => Name_cmp(obj, Name_new(z)) = "Less"
    /\ out.op = "Name_hash" =>
          (Name_eq(obj, Name_new(out.arg)) => out.res.self = out.res.other)

\* The name "R" was compared with the name "2R": longer, yet less.
C4_Witness ==
    /\ out.op = "Name_cmp"
    /\ origin.input = <<82>>
    /\ out.arg = <<50, 82>>
    /\ out.res = "Greater"

\* The type mismatches of C5: an identifier from a string, a name or a
\* secret from a number.
Mismatch(op, v) ==
    \/ op = "Id_deserialize" /\ v.t = "String"
    \/ op \in {"Name_deserialize", "Secret_deserialize"}
         /\ v.t \in {"PosInt", "NegInt", "Float"}

C5_Step ==
    Mismatch(out'.op, out'.arg) =>
        /\ ~out'.res.ok
        /\ out'.res.err = "invalid_type"
        /\ out'.res.unexpected = out'.arg.t
        /\ "val" \notin DOMAIN out'.res
        /\ obj' = obj
        /\ origin' = origin

\* C5: deserializing an identifier from a string, or a name or a secret
\* from a number, returns a type error that holds no value, and the program
\* is left with the value it had: no identifier, name or secret is produced.
C5_TypeMismatch == [][out'.op \in {"Id_deserialize", "Name_deserialize", "Secret_deserialize"} => C5_Step]_vars

\* An identifier was asked of the string "22" and a type error came back.
C5_Witness ==
    /\ out.op = "Id_deserialize"
    /\ out.arg = [t |-> "String", s |-> <<50, 50>>]
    /\ ~out.res.ok

\* C6: only expose() shows a secret's content.  For two secrets holding
\* any two texts, Display and Debug, before or after cloning, return the same
\* for both, and the type derives no Serialize.
C6_OnlyExposeReveals ==
    /\ "Serialize" \notin Derives("secret")
    /\ pout.op \in {"Secret_fmt", "Secret_fmt_debug"} => pout.r1 = pout.r2
    /\ pout.op = "Secret_clone" =>
          /\ Secret_fmt(pout.r1) = Secret_fmt(pout.r2)
          /\ Secret_fmt_debug(pout.r1) = Secret_fmt_debug(pout.r2)

\* Clones of secrets holding "R" and "22" were rendered with Debug.
C6_Witness ==
    /\ pout.op = "Secret_fmt_debug"
    /\ cloned
    /\ Secret_expose(pair[1]) = <<82>>
    /\ Secret_expose(pair[2]) = <<50, 50>>

\* C7, as stated: the rendering of a secret contains no text c whatever.
C7_AsStated ==
    out.op = "Secret_fmt" => \A c \in Strings : ~Contains(out.res, c)

\* C7, amended: the rendering of a secret is "[REDACTED]" whatever it holds,
\* so it contains a text c exactly when "[REDACTED]" does (the empty text,
\* "R", ...), its own content included only in that case.
C7_Redaction ==
    out.op = "Secret_fmt" =>
        /\ out.res = Marker
        /\ \A c \in Strings : Contains(out.res, c) <=> Contains(Marker, c)
        /\ Contains(out.res, Secret_expose(obj)) <=> Contains(Marker, Secret_expose(obj))

\* A secret holding "2R", which is no part of the marker, was displayed.
C7_Witness ==
    /\ out.op = "Secret_fmt"
    /\ Secret_expose(obj) = <<50, 82>>
    /\ ~Contains(out.res, <<50, 82>>)

\* The documents examples/secret.rs reads a token from.
TokenDoc(v) ==
    /\ v.t = "Object"
    /\ \E e \in v.entries : e.key = "token" /\ e.val.t = "String"

TokenOf(v) == (CHOOSE e \in v.entries : e.key = "token").val.s

\* C8: the structured form is the bare primitive: an identifier serializes
\* to the number, a name to the string, neither to an object; the number n
\* deserializes to an identifier with get() = n, the string s to a name with
\* get() = s and to a secret with expose() = s, and {"token": t} to settings
\* whose token exposes t.
C8_BarePrimitive ==
    /\ out.op = "Id_serialize" => out.res = [t |-> "PosInt", n |-> origin.input]
    /\ out.op = "Name_serialize" => out.res = [t |-> "String", s |-> origin.input]
    /\ (out.op = "Id_deserialize" /\ out.arg.t = "PosInt") =>
          out.res.ok /\ Id_get(out.res.val) = out.arg.n /\ obj = out.res.val
    /\ (out.op = "Name_deserialize" /\ out.arg.t = "String") =>
          out.res.ok /\ Name_get(out.res.val) = out.arg.s /\ obj = out.res.val
    /\ (out.op = "Secret_deserialize" /\ out.arg.t = "String") =>
          out.res.ok /\ Secret_expose(out.res.val) = out.arg.s /\ obj = out.res.val
    /\ (out.op = "main" /\ TokenDoc(out.arg)) =>
          out.res = [ok |-> TRUE, val |-> TokenOf(out.arg)]

\* main read {"token": "R2", "other": null} and exposed "R2".
C8_Witness ==
    /\ out.op = "main"
    /\ out.arg = [t |-> "Object",
                  entries |-> {[key |-> "token", val |-> [t |-> "String", s |-> <<82, 50>>]],
                               [key |-> "other", val |-> [t |-> "Null"]]}]
    /\ out.res = [ok |-> TRUE, val |-> <<82, 50>>]

\* C9: Display of an identifier is the decimal numeral of its value, digits
\* only, no leading zero, "0" for 0 and "18446744073709551615" for 2^64 - 1;
\* Display of a name is its text, byte for byte.
C9_Display ==
    /\ out.op = "Id_fmt" =>
          /\ IsDecimal(out.res)
          /\ DecValue(<<0, 0, 0, 0>>, out.res) = origin.input
          /\ origin.input = <<0, 0, 0, 0>> => out.res = <<48>>
          /\ origin.input = <<0, 0, 0, 42>> => out.res = <<52, 50>>
          /\ origin.input = <<65535, 65535, 65535, 65535>> =>
                out.res = <<49, 56, 52, 52, 54, 55, 52, 52, 48, 55,
                            51, 55, 48, 57, 53, 53, 49, 54, 49, 53>>
    /\ out.op = "Name_fmt" => out.res = origin.input

\* The identifier 2^64 - 1 was displayed, in twenty digits.
C9_Witness ==
    /\ out.op = "Id_fmt"
    /\ origin.input = <<65535, 65535, 65535, 65535>>
    /\ Len(out.res) = 20

\* C10: once a value is built from v, whatever the readers do and however
\* their calls interleave, the value's accessor returns v, every reader's
\* clone's accessor returns v, and every get returned v.
C10_Immutable ==
    shared # NoObj =>
        /\ Accessor(shared) = sorigin.input
        /\ \A r \in Readers : rd[r].own # NoObj => Accessor(rd[r].own) = sorigin.input
        /\ clog.op \in {"get", "get_own"} => clog.res = sorigin.input
        /\ clog.op = "clone" => Accessor(clog.res) = sorigin.input

\* Two readers hold borrows of the name "R2" at once, one has a clone, and
\* the other's get has just returned.
C10_Witness ==
    /\ shared.kind = "name"
    /\ sorigin.input = <<82, 50>>
    /\ \E r \in Readers, q \in Readers :
          /\ r # q
          /\ rd[r].pc = "borrowed" /\ rd[q].pc = "borrowed"
          /\ rd[r].own # NoObj
          /\ clog.op = "get" /\ clog.reader = q

=============================================================================
